---- MODULE Spec2Model ----
(***************************************************************************)
(* A model of the X-Chain throughput tester (package avmtester):           *)
(*   - UTXOSet: the index map plus backing list with swap-removal;         *)
(*   - tester:  key store, balance table, createTx / generateTxs;          *)
(*   - Run:     the issuance loop and the Issue/Accept/Reject callbacks    *)
(*              that share the engine lock and a condition variable.       *)
(* The specifications share the variables:                                 *)
(*   SpecSet     Put/Remove called directly on a UTXOSet                   *)
(*   SpecWallet  importKey/addUTXO/removeUTXO/createTx/generateTxs         *)
(*   SpecRun     Run, interleaved with the consensus engine's callbacks    *)
(*   SpecRunFair SpecRun where Run and the engine keep taking their steps  *)
(***************************************************************************)
EXTENDS Integers, Sequences, FiniteSets, TLC

VARIABLES
    Config,          \* tester.Config: TxFee, MaxProcessingVtxs
    keychain,        \* tester.keychain: addresses of the keys held, in insertion order
    utxoSet,         \* tester.utxoSet: [utxoMap, UTXOs]
    balance,         \* tester.balance: asset -> uint64 (a Go map: absent keys read as 0)
    txs,             \* tester.txs: the transactions still to be issued
    processingVtxs,  \* tester.processingVtxs
    lock,            \* holder of processingVtxsCond.L (the engine's lock)
    pc,              \* position of the calling goroutine
    frame,           \* locals of the call in progress (Run's config and i, generateTxs' i)
    result,          \* what the last Run returned
    engine,          \* the consensus engine: containers submitted / issued / decided
    handed,          \* history: the batches passed to Engine.Issue, in order
    generated,       \* history: the transactions generateTxs built, in order
    shadow,          \* history: id -> the UTXO put and not removed since
    dups,            \* history: the calls of addUTXO with an id already in the set
    last             \* history: the last operation and what it saw

vars == <<Config, keychain, utxoSet, balance, txs, processingVtxs, lock, pc,
          frame, result, engine, handed, generated, shadow, dups, last>>

\* the variables of the issuance loop and of the engine's callbacks
runVars == <<processingVtxs, lock, result, engine, handed>>

---------------------------------------------------------------------------
(* Bounds of the model *)

\* uint64 is modelled Width bits wide, so that sums can overflow
Width == 3
\* the ids handed to Put and Remove directly are <<ExtTxID, 0>> .. <<ExtTxID, NumIDs - 1>>
NumIDs == 3
\* largest number of calls of addUTXO with an id that is already in the set
MaxDups == 1
\* largest total numTxs of the direct calls of generateTxs
MaxGenerate == 1
\* largest NumTxs passed to Run
MaxNumTxs == 5
\* largest BatchSize passed to Run
MaxBatchSize == 2
\* largest MaxProcessingVtxs of a tester
MaxMaxProcessingVtxs == 1

MaxUint64 == 2^Width - 1
Uint64 == 0..MaxUint64

---------------------------------------------------------------------------
(* Values *)

Range(s) == {s[k] : k \in DOMAIN s}

\* addresses: the wallet can import the keys of Keys; nobody here holds the key
\* of ForeignAddr; owner NoOwner stands for an OutputOwners with threshold 0,
\* which needs no signature
Keys == {"k1"}
ForeignAddr == "foreign"
NoOwner == "nobody"
Addrs == Keys \cup {ForeignAddr}
AvaxAssetID == "avax"
Assets == {AvaxAssetID, "other"}

\* utxo.Out: either no transferable output at all, or a secp256k1fx.TransferOutput
NoOut == [kind |-> "none", amt |-> 0, locktime |-> 0, owner |-> NoOwner]
TransferOutput(amt, locktime, owner) ==
    [kind |-> "transfer", amt |-> amt, locktime |-> locktime, owner |-> owner]

\* a transaction id is the hash of the transaction's content; the model uses the
\* content itself, so that equal transactions have equal ids and no others do
ExtTxID == [ins |-> {}, outs |-> <<>>]
UTXO(txID, outputIndex, asset, out) ==
    [id |-> <<txID, outputIndex>>, asset |-> asset, out |-> out]

\* the reference time of the run (Clock.Unix()); a locktime of Now + 1 is in the future
Now == 0
\* the UTXOs handed to the wallet from outside have the output indices of
\* ExtIndices.  With index 0: a large amount owned by the wallet's key, one unit
\* owned by nobody, one unit owned by a stranger, and an output that is not
\* transferable.  With index 1: the large amount again, one unit, one unit
\* locked until after Now, one unit of another asset, all owned by the wallet's key.
ExtIndices == {0, 1}
ExtUTXOs ==
    {UTXO(ExtTxID, 0, AvaxAssetID, TransferOutput(MaxUint64 - 2, 0, "k1")),
     UTXO(ExtTxID, 0, AvaxAssetID, TransferOutput(1, 0, NoOwner)),
     UTXO(ExtTxID, 0, AvaxAssetID, TransferOutput(1, 0, ForeignAddr)),
     UTXO(ExtTxID, 0, AvaxAssetID, NoOut),
     UTXO(ExtTxID, 1, AvaxAssetID, TransferOutput(MaxUint64 - 2, 0, "k1")),
     UTXO(ExtTxID, 1, AvaxAssetID, TransferOutput(1, 0, "k1")),
     UTXO(ExtTxID, 1, AvaxAssetID, TransferOutput(1, Now + 1, "k1")),
     UTXO(ExtTxID, 1, "other", TransferOutput(1, 0, "k1"))}
\* Put and Remove are handed more ids and fewer outputs
SetIDs == {<<ExtTxID, k>> : k \in 0..(NumIDs - 1)}
SetUTXOs ==
    {UTXO(ExtTxID, k, a, o) : k \in 0..(NumIDs - 1), a \in {AvaxAssetID},
                              o \in {NoOut, TransferOutput(1, 0, "k1")}}
ExtIDs == {<<ExtTxID, k>> : k \in ExtIndices}

NilUTXO == UTXO(ExtTxID, 0 - 1, "none", NoOut)

---------------------------------------------------------------------------
(* UTXOSet.  utxoMap holds Go's 0-based indices; UTXOs is 1-based here, so the
   element Go calls UTXOs[i] is UTXOs[i + 1].  A nil utxoMap and an empty one
   behave alike in Put, Get and Remove (reads of a nil map miss, Put makes the
   map before writing), so both are the empty function. *)

EmptyMap == [k \in {} |-> 0]
NewUTXOSet == [utxoMap |-> EmptyMap, UTXOs |-> <<>>]

InputID(utxo) == utxo.id

MapDelete(m, key) == [k \in (DOMAIN m) \ {key} |-> m[k]]
MapSet(m, key, v) == [k \in (DOMAIN m) \cup {key} |-> IF k = key THEN v ELSE m[k]]

ListIDs(us) == {InputID(us.UTXOs[k]) : k \in DOMAIN us.UTXOs}

PutOverwrite(us, utxo) ==
    LET utxoKey == InputID(utxo) IN
    IF utxoKey \notin DOMAIN us.utxoMap
    THEN [utxoMap |-> MapSet(us.utxoMap, utxoKey, Len(us.UTXOs)),
          UTXOs   |-> Append(us.UTXOs, utxo)]
    ELSE [utxoMap |-> us.utxoMap,
          UTXOs   |-> [us.UTXOs EXCEPT ![us.utxoMap[utxoKey] + 1] = utxo]]

Put(us, utxo) ==
    LET utxoKey == InputID(utxo) IN
    IF utxoKey \notin DOMAIN us.utxoMap
    THEN [utxoMap |-> MapSet(us.utxoMap, utxoKey, Len(us.UTXOs)),
          UTXOs   |-> Append(us.UTXOs, utxo)]
    ELSE us

Get(us, id) ==
    IF id \in DOMAIN us.utxoMap THEN us.UTXOs[us.utxoMap[id] + 1] ELSE NilUTXO

\* the set after Remove(id): the last element is moved into the freed slot,
\* the list is cut by one, the moved element is re-indexed, the removed id deleted
RemoveNoReindex(us, id) ==
    IF id \notin DOMAIN us.utxoMap THEN us
    ELSE LET i == us.utxoMap[id]
             j == Len(us.UTXOs) - 1
             swapped == [us.UTXOs EXCEPT ![i + 1] = us.UTXOs[j + 1]]
         IN [utxoMap |-> MapDelete(us.utxoMap, id),
             UTXOs   |-> SubSeq(swapped, 1, j)]

Remove(us, id) ==
    IF id \notin DOMAIN us.utxoMap THEN us
    ELSE LET i == us.utxoMap[id]
             utxoI == us.UTXOs[i + 1]
             j == Len(us.UTXOs) - 1
             utxoJ == us.UTXOs[j + 1]
             swapped == [us.UTXOs EXCEPT ![i + 1] = utxoJ]
         IN [utxoMap |-> MapDelete(MapSet(us.utxoMap, InputID(utxoJ), i), InputID(utxoI)),
             UTXOs   |-> SubSeq(swapped, 1, j)]

\* what Remove(id) returns: nil when the id is not in the map, else the element
\* removed
RemoveReturn(us, id) ==
    IF id \notin DOMAIN us.utxoMap THEN NilUTXO ELSE us.UTXOs[us.utxoMap[id] + 1]

\* which case of Remove a call is: the id is absent, the only element, the last
\* element of several, or an element that the last one is swapped into
RemoveCase(us, id) ==
    IF id \notin DOMAIN us.utxoMap THEN "absent"
    ELSE IF Len(us.UTXOs) = 1 THEN "only"
    ELSE IF us.utxoMap[id] = Len(us.UTXOs) - 1 THEN "last"
    ELSE "swap"

---------------------------------------------------------------------------
(* Key store.  secp256k1fx.Keychain is not among the sources; it is modelled from
   its use here and from the description of the Key Store: an output can be
   spent when its locktime has passed and the keychain holds enough keys for
   its threshold (one key for the owner, none when the threshold is 0). *)

Add(kc, sk) == IF sk \in Range(kc) THEN kc ELSE Append(kc, sk)

Spend(kc, out, time) ==
    /\ out.kind = "transfer"
    /\ out.locktime <= time
    /\ (out.owner = NoOwner \/ out.owner \in Range(kc))

importKey(kc, sk) == Add(kc, sk)

\* keychain.New() makes a key the keychain does not hold yet and adds it
NewKeys == {"n1", "n2", "n3"}
FreshKeys(kc) == NewKeys \ Range(kc)

\* createAddress, when keychain.New() makes the key sk: the address returned and
\* the keychain afterwards
createAddress(kc, sk) == [addr |-> sk, keychain |-> Add(kc, sk)]

\* getAddress: the first address when there is one, else that of a new key
getAddressAlwaysNew(kc, sk) == createAddress(kc, sk)

getAddress(kc, sk) ==
    IF Len(kc) = 0 THEN createAddress(kc, sk) ELSE [addr |-> kc[1], keychain |-> kc]

---------------------------------------------------------------------------
(* Balance table and ledger.  A wallet value w is [utxoSet, balance]. *)

BalanceOf(b, asset) == IF asset \in DOMAIN b THEN b[asset] ELSE 0

addUTXOAlways(w, kc, utxo) ==
    IF utxo.out.kind # "transfer" THEN w
    ELSE [utxoSet |-> Put(w.utxoSet, utxo),
          balance |-> MapSet(w.balance, utxo.asset,
                        (BalanceOf(w.balance, utxo.asset) + utxo.out.amt) % (MaxUint64 + 1))]

addUTXO(w, kc, utxo) ==
    IF utxo.out.kind # "transfer" THEN w
    ELSE IF Spend(kc, utxo.out, MaxUint64)
    THEN [utxoSet |-> Put(w.utxoSet, utxo),
          balance |-> MapSet(w.balance, utxo.asset,
                        (BalanceOf(w.balance, utxo.asset) + utxo.out.amt) % (MaxUint64 + 1))]
    ELSE w

removeUTXOKeepBalance(w, utxoID) ==
    [utxoSet |-> Remove(w.utxoSet, utxoID), balance |-> w.balance]

removeUTXO(w, utxoID) ==
    LET utxo == Get(w.utxoSet, utxoID) IN
    IF utxo = NilUTXO THEN w
    ELSE LET newBalance == (BalanceOf(w.balance, utxo.asset) - utxo.out.amt) % (MaxUint64 + 1)
         IN [utxoSet |-> Remove(w.utxoSet, utxoID),
             balance |-> IF newBalance = 0 THEN MapDelete(w.balance, utxo.asset)
                         ELSE MapSet(w.balance, utxo.asset, newBalance)]

---------------------------------------------------------------------------
(* createTx *)

\* amount + t.TxFee, as Go computes it on uint64
Target(amount, fee) == (amount + fee) % (MaxUint64 + 1)

\* the loop over t.utxoSet.UTXOs from position k on, with the amount and the
\* inputs collected so far
RECURSIVE Collect(_, _, _, _, _, _, _, _)
Collect(UTXOs, k, kc, assetID, target, time, amountSpent, ins) ==
    IF k > Len(UTXOs) THEN [err |-> "none", amountSpent |-> amountSpent, ins |-> ins]
    ELSE LET utxo == UTXOs[k] IN
         IF utxo.asset # assetID
         THEN Collect(UTXOs, k + 1, kc, assetID, target, time, amountSpent, ins)
         ELSE IF ~Spend(kc, utxo.out, time)
         THEN Collect(UTXOs, k + 1, kc, assetID, target, time, amountSpent, ins)
         ELSE IF amountSpent + utxo.out.amt > MaxUint64
         THEN [err |-> "overflow", amountSpent |-> amountSpent, ins |-> ins]
         ELSE IF amountSpent + utxo.out.amt >= target
         THEN [err |-> "none", amountSpent |-> amountSpent + utxo.out.amt,
               ins |-> Append(ins, utxo.id)]
         ELSE Collect(UTXOs, k + 1, kc, assetID, target, time,
                      amountSpent + utxo.out.amt, Append(ins, utxo.id))

\* avax.SortTransferableOutputs is not among the sources: the outputs are put in
\* a fixed order, here by amount and then by owner (the addresses in the order
\* of AddrOrder)
AddrOrder == <<"k1", ForeignAddr>>
AddrRank(addr) == CHOOSE k \in DOMAIN AddrOrder : AddrOrder[k] = addr
OutLess(a, b) ==
    \/ a.out.amt < b.out.amt
    \/ a.out.amt = b.out.amt /\ AddrRank(a.out.owner) < AddrRank(b.out.owner)

SortTransferableOutputs(outs) ==
    IF Len(outs) = 2 /\ OutLess(outs[2], outs[1]) THEN <<outs[2], outs[1]>> ELSE outs

\* avax.SortTransferableInputsWithSigners is not among the sources: the inputs
\* are ordered by (txID, outputIndex), where the order of two transaction ids
\* is the order of their hashes.  Every order of the inputs that keeps the
\* outputs of one transaction in index order is possible.
SortTransferableInputsWithSigners(ins) ==
    {p \in [1..Len(ins) -> Range(ins)] :
        /\ \A a, b \in 1..Len(ins) : a # b => p[a] # p[b]
        /\ \A a, b \in 1..Len(ins) :
              (a < b /\ p[a][1] = p[b][1]) => p[a][2] < p[b][2]}

\* the outputs: the payment and, when more was collected than amount + fee, the
\* change
OutsNoFee(assetID, amount, fee, amountSpent, destAddr, changeAddr) ==
    LET payment == [asset |-> assetID, out |-> TransferOutput(amount, 0, destAddr)]
        change == [asset |-> assetID,
                   out |-> TransferOutput((amountSpent - amount) % (MaxUint64 + 1),
                                          0, changeAddr)]
    IN IF amountSpent > amount THEN <<payment, change>> ELSE <<payment>>

Outs(assetID, amount, fee, amountSpent, destAddr, changeAddr) ==
    LET payment == [asset |-> assetID, out |-> TransferOutput(amount, 0, destAddr)]
        change == [asset |-> assetID,
                   out |-> TransferOutput((amountSpent - amount - fee) % (MaxUint64 + 1),
                                          0, changeAddr)]
    IN IF amountSpent > Target(amount, fee) THEN <<payment, change>> ELSE <<payment>>

\* what createTx returns but for the order of the inputs: the error, amountSpent,
\* the inputs in the order they were collected, and the sorted outputs
createTx(us, kc, fee, assetID, amount, destAddr, changeAddr, time) ==
    IF amount = 0
    THEN [err |-> "zero", amountSpent |-> 0, ins |-> <<>>, outs |-> <<>>]
    ELSE LET c == Collect(us.UTXOs, 1, kc, assetID, Target(amount, fee), time, 0, <<>>) IN
         IF c.err # "none"
         THEN [err |-> c.err, amountSpent |-> c.amountSpent, ins |-> <<>>, outs |-> <<>>]
         ELSE IF c.amountSpent < Target(amount, fee)
         THEN [err |-> "insufficient", amountSpent |-> c.amountSpent, ins |-> <<>>,
               outs |-> <<>>]
         ELSE [err |-> "none", amountSpent |-> c.amountSpent, ins |-> c.ins,
               outs |-> SortTransferableOutputs(
                   Outs(assetID, amount, fee, c.amountSpent, destAddr, changeAddr))]

\* the transactions createTx can return when it succeeds
Txs(r) == {[ins |-> p, outs |-> r.outs] : p \in SortTransferableInputsWithSigners(r.ins)}

TxID(tx) == [ins |-> Range(tx.ins), outs |-> tx.outs]
InputUTXOs(tx) == tx.ins
TxUTXOs(tx) ==
    [k \in 1..Len(tx.outs) |-> UTXO(TxID(tx), k - 1, tx.outs[k].asset, tx.outs[k].out)]

\* generateTxs' two loops over a built transaction: the inputs removed, the
\* outputs added
RECURSIVE RemoveAll(_, _, _)
RemoveAll(w, ids, k) ==
    IF k > Len(ids) THEN w ELSE RemoveAll(removeUTXO(w, ids[k]), ids, k + 1)

RECURSIVE AddAll(_, _, _, _)
AddAll(w, kc, utxos, k) ==
    IF k > Len(utxos) THEN w ELSE AddAll(addUTXO(w, kc, utxos[k]), kc, utxos, k + 1)

ApplyTxRemoveOnly(w, kc, tx) == RemoveAll(w, InputUTXOs(tx), 1)

ApplyTxAddOnly(w, kc, tx) == AddAll(w, kc, TxUTXOs(tx), 1)

ApplyTx(w, kc, tx) == AddAll(RemoveAll(w, InputUTXOs(tx), 1), kc, TxUTXOs(tx), 1)

\* the wallet after createTx has returned r: createTx assigns to no field of t
StateAfterCreateTxSpent(w, r) == RemoveAll(w, r.ins, 1)

StateAfterCreateTx(w, r) == w

---------------------------------------------------------------------------
(* The state after NewTester *)

NoFrame == [NumTxs |-> 0, BatchSize |-> 0, UTXOAmount |-> 0, i |-> 0, assetID |-> "none",
            addr |-> NoOwner, caller |-> "none"]
NilTx == [ins |-> <<>>, outs |-> <<>>]
NoLast == [op |-> "none", id |-> <<ExtTxID, 0>>, case |-> "none", assetID |-> "none",
           balanceBefore |-> 0]
NewEngine == [submitted |-> 0, processing |-> 0]

NewTester(fee, maxVtxs) ==
    /\ Config = [TxFee |-> fee, MaxProcessingVtxs |-> maxVtxs]
    /\ keychain = <<>>
    /\ utxoSet = NewUTXOSet
    /\ balance = EmptyMap
    /\ txs = <<>>
    /\ processingVtxs = 0
    /\ lock = "free"
    /\ pc = "idle"
    /\ frame = NoFrame
    /\ result = "none"
    /\ engine = NewEngine
    /\ handed = <<>>
    /\ generated = <<>>
    /\ shadow = EmptyMap
    /\ dups = 0
    /\ last = NoLast

---------------------------------------------------------------------------
(* The calls of the wallet, made one at a time by one goroutine.  The sequences
   of calls explored are: any calls of importKey, addUTXO, removeUTXO and
   createTx, then calls of generateTxs and createTx. *)

Wallet == [utxoSet |-> utxoSet, balance |-> balance]

Fees == {0, 1, MaxUint64}
Amounts == {0, 1, 2, MaxUint64 - 1}

ImportKey(sk) ==
    /\ pc = "idle"
    /\ generated = <<>>
    /\ keychain' = importKey(keychain, sk)
    /\ last' = [NoLast EXCEPT !.op = "importKey", !.case = sk]
    /\ UNCHANGED <<Config, utxoSet, balance, txs, pc, frame, runVars, generated, shadow, dups>>

AddUTXO(utxo) ==
    /\ pc = "idle"
    /\ generated = <<>>
    /\ dups' = IF utxo.id \in DOMAIN utxoSet.utxoMap THEN dups + 1 ELSE dups
    /\ dups' <= MaxDups
    /\ LET w == addUTXO(Wallet, keychain, utxo) IN
         /\ utxoSet' = w.utxoSet
         /\ balance' = w.balance
    /\ last' = [NoLast EXCEPT !.op = "addUTXO",
                  !.case = IF ~Spend(keychain, utxo.out, MaxUint64) THEN "refused"
                           ELSE IF utxo.id \in DOMAIN utxoSet.utxoMap THEN "present"
                           ELSE "new"]
    /\ UNCHANGED <<Config, keychain, txs, pc, frame, runVars, generated, shadow>>

RemoveUTXO(utxoID) ==
    /\ pc = "idle"
    /\ generated = <<>>
    /\ LET w == removeUTXO(Wallet, utxoID) IN
         /\ utxoSet' = w.utxoSet
         /\ balance' = w.balance
    /\ last' = [NoLast EXCEPT !.op = "removeUTXO", !.case = RemoveCase(utxoSet, utxoID)]
    /\ UNCHANGED <<Config, keychain, txs, pc, frame, runVars, generated, shadow, dups>>

\* createTx reads the wallet and returns a transaction or an error; the caller
\* keeps what it returned (last)
CreateTx(assetID, amount, destAddr, changeAddr, time) ==
    /\ pc = "idle"
    /\ LET r == createTx(utxoSet, keychain, Config.TxFee, assetID, amount, destAddr,
                         changeAddr, time)
           w == StateAfterCreateTx(Wallet, r)
       IN /\ utxoSet' = w.utxoSet
          /\ balance' = w.balance
          /\ last' = [NoLast EXCEPT !.op = "createTx", !.case = r.err]
    /\ UNCHANGED <<Config, keychain, txs, pc, frame, runVars, generated, shadow, dups>>

\* generateTxs up to its loop, called with the keychain kc and the caller's
\* locals fr: with no key it returns an error at once
GenerateTxsBegin(kc, fr, numTxs, assetID, caller) ==
    IF Len(kc) = 0
    THEN /\ last' = [NoLast EXCEPT !.op = "generateTxs", !.case = "nokeys"]
         /\ pc' = IF caller = "Run" THEN "done" ELSE "idle"
         /\ result' = IF caller = "Run" THEN "error" ELSE result
         /\ UNCHANGED <<txs, frame>>
    ELSE /\ txs' = [k \in 1..numTxs |-> NilTx]
         /\ frame' = [fr EXCEPT !.NumTxs = numTxs, !.i = 0, !.assetID = assetID,
                                !.addr = kc[1], !.caller = caller]
         /\ pc' = "gen"
         /\ last' = [NoLast EXCEPT !.op = "generateTxs", !.case = "begin"]
         /\ UNCHANGED result

GenerateTxs(numTxs, assetID) ==
    /\ pc = "idle"
    /\ Len(generated) + numTxs <= MaxGenerate
    /\ GenerateTxsBegin(keychain, NoFrame, numTxs, assetID, "api")
    /\ UNCHANGED <<Config, keychain, utxoSet, balance, generated, shadow, dups, processingVtxs, lock, engine, handed>>

\* one iteration of generateTxs' loop whose createTx fails: generateTxs returns
\* the error, and so does Run when it is the caller
GenerateFailGoesOn ==
    /\ pc = "gen"
    /\ frame.i < frame.NumTxs
    /\ LET r == createTx(utxoSet, keychain, Config.TxFee, frame.assetID, 1, frame.addr,
                         frame.addr, Now)
       IN /\ r.err # "none"
          /\ last' = [NoLast EXCEPT !.op = "generateTxs", !.case = r.err]
    /\ pc' = IF frame.caller = "Run" THEN "loop" ELSE "idle"
    /\ frame' = [frame EXCEPT !.i = 0]
    /\ UNCHANGED <<Config, keychain, utxoSet, balance, txs, result, generated, shadow, dups, processingVtxs, lock, engine, handed>>

GenerateFail ==
    /\ pc = "gen"
    /\ frame.i < frame.NumTxs
    /\ LET r == createTx(utxoSet, keychain, Config.TxFee, frame.assetID, 1, frame.addr,
                         frame.addr, Now)
       IN /\ r.err # "none"
          /\ last' = [NoLast EXCEPT !.op = "generateTxs", !.case = r.err]
    /\ pc' = IF frame.caller = "Run" THEN "done" ELSE "idle"
    /\ result' = IF frame.caller = "Run" THEN "error" ELSE result
    /\ UNCHANGED <<Config, keychain, utxoSet, balance, txs, frame, generated, shadow, dups, processingVtxs, lock, engine, handed>>

\* one iteration whose createTx succeeds: the inputs are removed, the outputs
\* added, the transaction stored in t.txs[i]
GenerateStep ==
    /\ pc = "gen"
    /\ frame.i < frame.NumTxs
    /\ LET r == createTx(utxoSet, keychain, Config.TxFee, frame.assetID, 1, frame.addr,
                         frame.addr, Now)
       IN /\ r.err = "none"
          /\ \E tx \in Txs(r) :
               LET w == ApplyTx(StateAfterCreateTx(Wallet, r), keychain, tx) IN
                 /\ utxoSet' = w.utxoSet
                 /\ balance' = w.balance
                 /\ txs' = [txs EXCEPT ![frame.i + 1] = tx]
                 /\ generated' = Append(generated, tx)
                 /\ last' = [NoLast EXCEPT !.op = "generateTxs", !.case = "built",
                               !.assetID = frame.assetID,
                               !.balanceBefore = BalanceOf(balance, frame.assetID)]
    /\ frame' = [frame EXCEPT !.i = frame.i + 1]
    /\ UNCHANGED <<Config, keychain, pc, runVars, shadow, dups>>

\* generateTxs returns nil after its last iteration
GenerateReturn ==
    /\ pc = "gen"
    /\ frame.i = frame.NumTxs
    /\ pc' = IF frame.caller = "Run" THEN "loop" ELSE "idle"
    /\ frame' = [frame EXCEPT !.i = 0]
    /\ last' = [NoLast EXCEPT !.op = "generateTxs", !.case = "returned"]
    /\ UNCHANGED <<Config, keychain, utxoSet, balance, txs, runVars, generated, shadow, dups>>

InitWallet == \E fee \in Fees : NewTester(fee, 0)

NextWallet ==
    \/ \E sk \in Keys : ImportKey(sk)
    \/ \E utxo \in ExtUTXOs : AddUTXO(utxo)
    \/ \E utxoID \in ExtIDs \cup ListIDs(utxoSet) : RemoveUTXO(utxoID)
    \/ \E assetID \in Assets, amount \in Amounts, time \in {Now, MaxUint64} :
          CreateTx(assetID, amount, ForeignAddr, "k1", time)
    \/ \E numTxs \in 0..MaxGenerate, assetID \in Assets : GenerateTxs(numTxs, assetID)
    \/ GenerateFail
    \/ GenerateStep
    \/ GenerateReturn

SpecWallet == InitWallet /\ [][NextWallet]_vars

---------------------------------------------------------------------------
(* Run.  The consensus engine (Engine.VM.ParseTx, Engine.Issue and the event
   dispatcher that calls Issue, Accept and Reject) is not among the sources.
   It is modelled from its description: a batch is one container; parsing
   or issuing a batch may fail; for every container taken, Issue is called
   once, during Engine.Issue or after Run has released the lock, and then
   Accept or Reject once.  The engine calls back with its lock held, which is
   the lock of processingVtxsCond, so a callback runs only while Run does not
   hold it. *)

UTXOAmounts == {1, MaxUint64 - 2}

\* Run up to the loop of generateTxs: the key imported, the UTXO of the
\* configuration added
RunBegin(NumTxs, BatchSize, UTXOAmount, Key) ==
    /\ pc = "idle"
    /\ keychain' = importKey(keychain, Key)
    /\ LET w == addUTXO(Wallet, keychain',
                        UTXO(ExtTxID, 0, AvaxAssetID, TransferOutput(UTXOAmount, 0, Key)))
       IN /\ utxoSet' = w.utxoSet
          /\ balance' = w.balance
    /\ GenerateTxsBegin(keychain', [NoFrame EXCEPT !.BatchSize = BatchSize,
                                                   !.UTXOAmount = UTXOAmount],
                        NumTxs, AvaxAssetID, "Run")
    /\ UNCHANGED <<Config, generated, shadow, dups, processingVtxs, lock, engine, handed>>

\* the head of the issuing loop: i < config.NumTxs, then Lock()
RunLock ==
    /\ pc = "loop"
    /\ frame.i < frame.NumTxs
    /\ lock = "free"
    /\ lock' = "Run"
    /\ pc' = "check"
    /\ last' = [NoLast EXCEPT !.op = "Run", !.case = "lock"]
    /\ UNCHANGED <<Config, keychain, utxoSet, balance, txs, frame, generated, shadow, dups,
                   processingVtxs, result, engine, handed>>

\* the loop is over: return nil, nil
RunReturn ==
    /\ pc = "loop"
    /\ frame.i >= frame.NumTxs
    /\ pc' = "done"
    /\ result' = "ok"
    /\ last' = [NoLast EXCEPT !.op = "Run", !.case = "return"]
    /\ UNCHANGED <<Config, keychain, utxoSet, balance, txs, frame, generated, shadow, dups,
                   processingVtxs, lock, engine, handed>>

\* the condition of the inner for, evaluated on entry and after every Wait
MustWaitOnEntryOnly(afterWake, vtxs, max) == ~afterWake /\ vtxs > max

MustWait(afterWake, vtxs, max) == vtxs > max

\* for t.processingVtxs > t.MaxProcessingVtxs { Wait() }: Wait unlocks and blocks
RunCheck ==
    /\ pc \in {"check", "recheck"}
    /\ IF MustWait(pc = "recheck", processingVtxs, Config.MaxProcessingVtxs)
       THEN /\ pc' = "wait"
            /\ lock' = "free"
       ELSE /\ pc' = "locked"
            /\ UNCHANGED lock
    /\ last' = [NoLast EXCEPT !.op = "Run", !.case = IF pc = "recheck" THEN "recheck" ELSE "check"]
    /\ UNCHANGED <<Config, keychain, utxoSet, balance, txs, frame, generated, shadow, dups,
                   processingVtxs, result, engine, handed>>

\* a signalled Wait locks again before it returns
RunWake ==
    /\ pc = "woken"
    /\ lock = "free"
    /\ lock' = "Run"
    /\ pc' = "recheck"
    /\ last' = [NoLast EXCEPT !.op = "Run", !.case = "wake"]
    /\ UNCHANGED <<Config, keychain, utxoSet, balance, txs, frame, generated, shadow, dups,
                   processingVtxs, result, engine, handed>>

\* nextTxs(n): the error, the transactions returned, and t.txs afterwards
nextTxs(ts, n) ==
    IF Len(ts) = 0 THEN [err |-> TRUE, txs |-> <<>>, rest |-> ts]
    ELSE IF Len(ts) < n THEN [err |-> FALSE, txs |-> ts, rest |-> ts]
    ELSE [err |-> FALSE, txs |-> SubSeq(ts, 1, n), rest |-> SubSeq(ts, n + 1, Len(ts))]

\* Issue: the container is issued to consensus
Issue(vtxs) == vtxs + 1

\* Accept and Reject: the count after the call, and whether Signal is called
Decided(vtxs) == vtxs - 1
Signals(vtxs, max) == vtxs < max

\* Cond.Signal wakes the goroutine blocked in Wait, if there is one
Signal(p) == IF p = "wait" THEN "woken" ELSE p

\* nextTxs fails: Run logs that it ran out and returns nil, nil
RunOutOfTxs ==
    /\ pc = "locked"
    /\ nextTxs(txs, frame.BatchSize).err
    /\ pc' = "done"
    /\ result' = "early"
    /\ last' = [NoLast EXCEPT !.op = "Run", !.case = "out"]
    /\ UNCHANGED <<Config, keychain, utxoSet, balance, txs, frame, generated, shadow, dups,
                   processingVtxs, lock, engine, handed>>

\* ParseTx or Engine.Issue fails: Run unlocks and returns the error
RunEngineFailRetry(what) ==
    /\ pc = "locked"
    /\ ~nextTxs(txs, frame.BatchSize).err
    /\ lock' = "free"
    /\ pc' = "loop"
    /\ last' = [NoLast EXCEPT !.op = "Run", !.case = what]
    /\ UNCHANGED <<Config, keychain, utxoSet, balance, txs, frame, generated, shadow, dups,
                   processingVtxs, result, engine, handed>>

RunEngineFail(what) ==
    /\ pc = "locked"
    /\ ~nextTxs(txs, frame.BatchSize).err
    /\ txs' = nextTxs(txs, frame.BatchSize).rest
    /\ lock' = "free"
    /\ pc' = "done"
    /\ result' = "error"
    /\ last' = [NoLast EXCEPT !.op = "Run", !.case = what]
    /\ UNCHANGED <<Config, keychain, utxoSet, balance, frame, generated, shadow, dups,
                   processingVtxs, engine, handed>>

\* the batch is parsed and issued; the engine calls Issue during Engine.Issue
\* (during = TRUE) or later; Run unlocks and goes round the loop
RunIssue(during) ==
    /\ pc = "locked"
    /\ ~nextTxs(txs, frame.BatchSize).err
    /\ txs' = nextTxs(txs, frame.BatchSize).rest
    /\ handed' = Append(handed, nextTxs(txs, frame.BatchSize).txs)
    /\ IF during
       THEN /\ processingVtxs' = Issue(processingVtxs)
            /\ engine' = [engine EXCEPT !.processing = @ + 1]
       ELSE /\ engine' = [engine EXCEPT !.submitted = @ + 1]
            /\ UNCHANGED processingVtxs
    /\ lock' = "free"
    /\ frame' = [frame EXCEPT !.i = frame.i + 1]
    /\ pc' = "loop"
    /\ last' = [NoLast EXCEPT !.op = "Run", !.case = "issued"]
    /\ UNCHANGED <<Config, keychain, utxoSet, balance, generated, shadow, dups, result>>

\* the engine calls Issue for a container it took earlier
EngineIssue ==
    /\ lock = "free"
    /\ engine.submitted > 0
    /\ engine' = [submitted |-> engine.submitted - 1, processing |-> engine.processing + 1]
    /\ processingVtxs' = Issue(processingVtxs)
    /\ last' = [NoLast EXCEPT !.op = "Issue", !.case = pc]
    /\ UNCHANGED <<Config, keychain, utxoSet, balance, txs, pc, frame, generated, shadow,
                   dups, lock, result, handed>>

\* the engine calls Accept or Reject for a container in consensus
EngineDecide(what) ==
    /\ lock = "free"
    /\ engine.processing > 0
    /\ engine' = [engine EXCEPT !.processing = @ - 1]
    /\ processingVtxs' = Decided(processingVtxs)
    /\ pc' = IF Signals(processingVtxs', Config.MaxProcessingVtxs) THEN Signal(pc) ELSE pc
    /\ last' = [NoLast EXCEPT !.op = what, !.case = pc]
    /\ UNCHANGED <<Config, keychain, utxoSet, balance, txs, frame, generated, shadow, dups,
                   lock, result, handed>>

Accept == EngineDecide("Accept")
Reject == EngineDecide("Reject")

InitRun == \E fee \in Fees, maxVtxs \in 0..MaxMaxProcessingVtxs : NewTester(fee, maxVtxs)

RunSteps ==
    \/ GenerateFail
    \/ GenerateStep
    \/ GenerateReturn
    \/ RunLock
    \/ RunReturn
    \/ RunCheck
    \/ RunWake
    \/ RunOutOfTxs
    \/ RunEngineFail("parse")
    \/ RunEngineFail("issue")
    \/ RunIssue(TRUE)
    \/ RunIssue(FALSE)

NextRun ==
    \/ \E NumTxs \in 0..MaxNumTxs, BatchSize \in 1..MaxBatchSize, UTXOAmount \in UTXOAmounts,
          Key \in Keys : RunBegin(NumTxs, BatchSize, UTXOAmount, Key)
    \/ RunSteps
    \/ EngineIssue
    \/ Accept
    \/ Reject

SpecRun == InitRun /\ [][NextRun]_vars

\* the goroutine of Run keeps running, and the engine delivers every callback
\* it owes: Issue for every container taken, Accept or Reject for every
\* container issued
SpecRunFair ==
    /\ SpecRun
    /\ WF_vars(RunSteps)
    /\ WF_vars(EngineIssue)
    /\ WF_vars(Accept \/ Reject)

---------------------------------------------------------------------------
(* SpecKeys: importKey, getAddress and createAddress called on the key store *)

\* largest number of keys in the keychain
MaxKeys == 3
ImportKeys == Keys \cup {"k2"}

GetAddress(sk) ==
    /\ pc = "idle"
    /\ LET g == getAddress(keychain, sk) IN
         /\ Len(g.keychain) <= MaxKeys
         /\ keychain' = g.keychain
         /\ last' = [NoLast EXCEPT !.op = "getAddress", !.case = g.addr]
    /\ UNCHANGED <<Config, utxoSet, balance, txs, pc, frame, runVars, generated, shadow, dups>>

CreateAddress(sk) ==
    /\ pc = "idle"
    /\ LET c == createAddress(keychain, sk) IN
         /\ Len(c.keychain) <= MaxKeys
         /\ keychain' = c.keychain
         /\ last' = [NoLast EXCEPT !.op = "createAddress", !.case = c.addr]
    /\ UNCHANGED <<Config, utxoSet, balance, txs, pc, frame, runVars, generated, shadow, dups>>

InitKeys == NewTester(0, 0)

NextKeys ==
    \/ \E sk \in ImportKeys : Len(importKey(keychain, sk)) <= MaxKeys /\ ImportKey(sk)
    \/ \E sk \in FreshKeys(keychain) : GetAddress(sk)
    \/ \E sk \in FreshKeys(keychain) : CreateAddress(sk)

SpecKeys == InitKeys /\ [][NextKeys]_vars

---------------------------------------------------------------------------
(* SpecSet: Put and Remove called directly on the set *)

InitSet == NewTester(0, 0)

SetPut(utxo) ==
    /\ utxoSet' = Put(utxoSet, utxo)
    /\ shadow' = IF InputID(utxo) \in DOMAIN shadow THEN shadow
                 ELSE MapSet(shadow, InputID(utxo), utxo)
    /\ last' = [op |-> "Put", id |-> InputID(utxo),
                case |-> IF InputID(utxo) \in DOMAIN utxoSet.utxoMap
                         THEN "present" ELSE "new"]
    /\ UNCHANGED <<Config, keychain, balance, txs, pc, frame, runVars, generated, dups>>

SetRemove(id) ==
    /\ utxoSet' = Remove(utxoSet, id)
    /\ shadow' = MapDelete(shadow, id)
    /\ last' = [op |-> "Remove", id |-> id, case |-> RemoveCase(utxoSet, id)]
    /\ UNCHANGED <<Config, keychain, balance, txs, pc, frame, runVars, generated, dups>>

NextSet ==
    \/ \E utxo \in SetUTXOs : SetPut(utxo)
    \/ \E id \in SetIDs : SetRemove(id)

SpecSet == InitSet /\ [][NextSet]_vars

---------------------------------------------------------------------------
(* C1 .. C6: the issuance loop *)

RECURSIVE Flatten(_)
Flatten(batches) ==
    IF Len(batches) = 0 THEN <<>> ELSE Head(batches) \o Flatten(Tail(batches))

IsPrefix(a, b) == Len(a) <= Len(b) /\ SubSeq(b, 1, Len(a)) = a

\* C1: the loop never stays blocked: whenever Run is blocked in Wait (the count
\* was above MaxProcessingVtxs) and the engine delivers every callback it owes,
\* Run later gets past the wait, for every MaxProcessingVtxs including 0.
C1_WaitEnds == (pc = "wait") ~> (pc = "locked")

\* C2: the count of outstanding containers never exceeds MaxProcessingVtxs + 1.
C2_AdmissionBound == processingVtxs <= Config.MaxProcessingVtxs + 1

\* C3: an Accept or Reject that leaves the count at or below MaxProcessingVtxs
\* while Run is blocked in Wait wakes it.
C3_SignalAtOrBelowMax ==
    (/\ last.op \in {"Accept", "Reject"}
     /\ last.case = "wait"
     /\ processingVtxs <= Config.MaxProcessingVtxs)
    => pc = "woken"

\* C4: Run is past the wait, holding the lock and about to take and hand over a
\* batch, only when the count is at most MaxProcessingVtxs, also after a wake
\* that found the count raised again.
C4_CapacityWhenPastWait ==
    pc = "locked" => processingVtxs <= Config.MaxProcessingVtxs

\* Run was woken, found the count above the maximum again and went back to
\* waiting, was woken once more and is now past the wait with the lock held
C4_Witness ==
    /\ pc = "locked"
    /\ last.op = "Run"
    /\ last.case = "recheck"
    /\ processingVtxs = Config.MaxProcessingVtxs
    /\ engine.submitted + engine.processing >= 2

\* a woken Run has found the count above the maximum and waits again
C4_StaleWake == pc = "wait" /\ last.op = "Run" /\ last.case = "recheck"

\* C5: a Run that ends without an error of the engine has handed to the engine
\* exactly the transactions that were in the sequence, whatever BatchSize is.
C5_HandsOverWhatWasAvailable ==
    (pc = "done" /\ result \in {"ok", "early"})
    => Len(Flatten(handed)) = Len(generated)

\* C6: the batches handed to the engine, one after the other, are a prefix of
\* the generated sequence: every transaction at most once, in order.
C6_HandedIsPrefix == IsPrefix(Flatten(handed), generated)

---------------------------------------------------------------------------
(* C7 *)

\* C7: after any sequence of Put and Remove the index map and the backing list
\* describe the same set: one map entry per list element, utxoMap[id(UTXOs[i])] = i
\* for every position i, no id twice in the list, Get(id) is the UTXO put for
\* every id put and not removed since, and Get(id) is absent for every other id.
C7_IndexListConsistent ==
    /\ DOMAIN utxoSet.utxoMap = ListIDs(utxoSet)
    /\ Cardinality(DOMAIN utxoSet.utxoMap) = Len(utxoSet.UTXOs)
    /\ \A k \in DOMAIN utxoSet.UTXOs : utxoSet.utxoMap[InputID(utxoSet.UTXOs[k])] = k - 1
    /\ \A id \in DOMAIN shadow : Get(utxoSet, id) = shadow[id]
    /\ \A id \in SetIDs \ DOMAIN shadow : Get(utxoSet, id) = NilUTXO

\* a Remove has just swapped the last element into the slot of the removed one,
\* and the set still holds elements
C7_Witness ==
    /\ last.op = "Remove"
    /\ last.case = "swap"
    /\ Len(utxoSet.UTXOs) >= 1
    /\ last.id \notin DOMAIN shadow

---------------------------------------------------------------------------
(* C8 .. C10: balance table, ledger, and the outputs of createTx *)

Wrap(n) == n % (MaxUint64 + 1)

\* the sum of the amounts of the UTXOs of an asset in a list
RECURSIVE LedgerSum(_, _)
LedgerSum(UTXOs, asset) ==
    IF Len(UTXOs) = 0 THEN 0
    ELSE (IF Head(UTXOs).asset = asset THEN Head(UTXOs).out.amt ELSE 0)
         + LedgerSum(Tail(UTXOs), asset)

\* the sum of the amounts of the outputs of a transaction
RECURSIVE SumOuts(_)
SumOuts(outs) ==
    IF Len(outs) = 0 THEN 0 ELSE Head(outs).out.amt + SumOuts(Tail(outs))

\* the successful calls of createTx examined in every state of the wallet: the
\* payment goes to one of dests, the change to the wallet's own address
BuildArgs(dests) ==
    [assetID : Assets, amount : Amounts \ {0}, destAddr : dests, time : {Now, MaxUint64}]
Build(a) ==
    createTx(utxoSet, keychain, Config.TxFee, a.assetID, a.amount, a.destAddr, "k1", a.time)

\* C8: for every asset the balance table's entry (0 when absent) is the sum of
\* the amounts of the UTXOs of that asset in the ledger, as a uint64.
C8_BalanceIsLedgerSum ==
    \A asset \in Assets :
        BalanceOf(balance, asset) = Wrap(LedgerSum(utxoSet.UTXOs, asset))

\* C9 as stated: a build of generateTxs (amount 1, and amount + fee fits a uint64)
\* that was applied leaves the balance at previousBalance - amount - fee.
C9_BalanceDropsByAmountAndFee ==
    (last.op = "generateTxs" /\ last.case = "built" /\ 1 + Config.TxFee <= MaxUint64)
    => BalanceOf(balance, last.assetID) = last.balanceBefore - 1 - Config.TxFee

\* C9: after a successful createTx whose change goes to the wallet's own
\* address, with its inputs removed and its outputs added as generateTxs does,
\* the asset's balance is, as a uint64, previousBalance - fee when the payment
\* goes to the wallet's own address (the payment comes back: every build of
\* generateTxs) and previousBalance - amount - fee when it goes to a stranger.
C9_BalanceAfterBuild ==
    /\ (last.op = "generateTxs" /\ last.case = "built")
       => BalanceOf(balance, last.assetID) = Wrap(last.balanceBefore - Config.TxFee)
    /\ "k1" \in Range(keychain) =>
         \A a \in BuildArgs(Addrs) :
           LET r == Build(a) IN
           r.err = "none" =>
             \A tx \in Txs(r) :
               BalanceOf(ApplyTx(Wallet, keychain, tx).balance, a.assetID)
                 = Wrap(BalanceOf(balance, a.assetID) - Config.TxFee
                        - (IF a.destAddr = "k1" THEN 0 ELSE a.amount))

\* generateTxs has built and applied a transaction with a fee, and a payment to
\* a stranger can be built from what is left
C9_Witness ==
    /\ last.op = "generateTxs"
    /\ last.case = "built"
    /\ Config.TxFee = 1
    /\ last.balanceBefore = MaxUint64 - 2
    /\ \E a \in BuildArgs({ForeignAddr}) : Build(a).err = "none"

\* C10 as stated: the outputs of a successful createTx (amount + fee fits a
\* uint64) sum to amountSpent.
C10_OutputsSumToSpent ==
    \A a \in BuildArgs({ForeignAddr}) :
        LET r == Build(a) IN
        (r.err = "none" /\ a.amount + Config.TxFee <= MaxUint64)
        => SumOuts(r.outs) = r.amountSpent

\* C10: the outputs of a successful createTx sum to amountSpent - fee: exactly
\* when amount + fee fits a uint64, and as a uint64 in every case.
C10_OutputsSumToSpentLessFee ==
    \A a \in BuildArgs({ForeignAddr}) :
        LET r == Build(a) IN
        r.err = "none" =>
            /\ Wrap(SumOuts(r.outs)) = Wrap(r.amountSpent - Config.TxFee)
            /\ a.amount + Config.TxFee <= MaxUint64
               => SumOuts(r.outs) = r.amountSpent - Config.TxFee

\* createTx has just returned a transaction, the fee is not 0, and a build in
\* this state produces a payment and a change output
C10_Witness ==
    /\ last.op = "createTx"
    /\ last.case = "none"
    /\ Config.TxFee = 1
    /\ \E a \in BuildArgs({ForeignAddr}) : Build(a).err = "none" /\ Len(Build(a).outs) = 2


---------------------------------------------------------------------------
(* C11 .. C13: the sequence generateTxs builds in Run *)

\* the UTXO Run adds before it generates
Genesis == <<ExtTxID, 0>>

\* Run's call of generateTxs has returned nil with fee 0
GeneratedFeeless ==
    /\ frame.caller = "Run"
    /\ last.op = "generateTxs"
    /\ last.case = "returned"
    /\ Config.TxFee = 0

\* C11 as stated: with fee 0, a deposit of G and N transactions (1 <= N <= G),
\* generation leaves one UTXO of G - N and a balance of G - N.
C11_OneUTXOLessN ==
    (GeneratedFeeless /\ 1 <= frame.NumTxs /\ frame.NumTxs <= frame.UTXOAmount)
    => /\ BalanceOf(balance, AvaxAssetID) = frame.UTXOAmount - frame.NumTxs
       /\ Len(utxoSet.UTXOs) = 1
       /\ utxoSet.UTXOs[1].out.amt = frame.UTXOAmount - frame.NumTxs

\* C11: with fee 0, a deposit of G and N single-unit self-payments, generation
\* builds the N transactions and leaves the balance at G and the ledger holding
\* UTXOs that sum to G: the payments come back.  The ledger holds one UTXO only
\* when G = 1 or N = 0, and at least two otherwise.
C11_BalanceStaysAtDeposit ==
    GeneratedFeeless
    => /\ Len(generated) = frame.NumTxs
       /\ BalanceOf(balance, AvaxAssetID) = frame.UTXOAmount
       /\ LedgerSum(utxoSet.UTXOs, AvaxAssetID) = frame.UTXOAmount
       /\ (frame.UTXOAmount = 1 \/ frame.NumTxs = 0) => Len(utxoSet.UTXOs) = 1
       /\ (frame.UTXOAmount >= 2 /\ frame.NumTxs >= 1) => Len(utxoSet.UTXOs) >= 2

\* generation of MaxNumTxs transactions from the large deposit has returned
C11_Witness ==
    /\ GeneratedFeeless
    /\ frame.NumTxs = MaxNumTxs
    /\ frame.UTXOAmount = MaxUint64 - 2
    /\ Len(generated) = MaxNumTxs

\* C12: a successful createTx has consumed inputs that sum to at least
\* amount + fee, the sum taken in the integers, so its outputs are never worth
\* more than its inputs.
C12_InputsCoverAmountAndFee ==
    \A a \in BuildArgs({ForeignAddr}) :
        LET r == Build(a) IN
        r.err = "none" =>
            /\ r.amountSpent >= a.amount + Config.TxFee
            /\ SumOuts(r.outs) <= r.amountSpent

\* the ids of the outputs of the transactions generated before the k-th
Produced(k) ==
    UNION {{<<TxID(generated[j]), n - 1>> : n \in 1..Len(generated[j].outs)} :
              j \in 1..(k - 1)}
\* the ids the transactions generated before the k-th have consumed
Consumed(k) == UNION {Range(generated[j].ins) : j \in 1..(k - 1)}

\* C13: in the sequence Run generates, the first transaction consumes the
\* deposit; every later transaction has inputs, each of them an output of an
\* earlier transaction of the sequence that none before it has consumed; the
\* deposit is consumed by the first transaction only and nothing is spent twice.
C13_ChainValid ==
    frame.caller = "Run" =>
      \A k \in 1..Len(generated) :
        /\ Len(generated[k].ins) >= 1
        /\ Cardinality(Range(generated[k].ins)) = Len(generated[k].ins)
        /\ Range(generated[k].ins) \cap Consumed(k) = {}
        /\ k = 1 => Range(generated[k].ins) = {Genesis}
        /\ k > 1 => Range(generated[k].ins) \subseteq Produced(k)

\* a transaction of the sequence spends an output of one that is not its
\* predecessor
C13_Witness ==
    /\ frame.caller = "Run"
    /\ Len(generated) >= 3
    /\ \E k \in 3..Len(generated) : \E id \in Range(generated[k].ins) :
          id[1] = TxID(generated[k - 2])


---------------------------------------------------------------------------
(* C17, C18: how Run ends *)

\* C17: when Run has returned, however it ended, the engine's lock is free.
C17_LockFreeAfterRun == pc = "done" => lock = "free"

\* C18: the transactions handed to the engine during one Run are never more
\* than NumTxs.
C18_HandedAtMostNumTxs ==
    frame.caller = "Run" => Len(Flatten(handed)) <= frame.NumTxs

---------------------------------------------------------------------------
(* C19, C20: the inputs and the outputs of a build *)

\* the UTXOs createTx may take: those of the asset that the keychain can spend
\* at the time, in the order of the backing list
Eligible(a) ==
    SelectSeq(utxoSet.UTXOs,
              LAMBDA u : u.asset = a.assetID /\ Spend(keychain, u.out, a.time))

RECURSIVE SumAmounts(_, _)
SumAmounts(UTXOs, n) ==
    IF n = 0 THEN 0 ELSE UTXOs[n].out.amt + SumAmounts(UTXOs, n - 1)

\* C19: the inputs of a successful createTx are the shortest prefix of the
\* eligible UTXOs whose amounts sum to at least amount + fee: without the last
\* of them the sum is below amount + fee.
C19_ShortestCoveringPrefix ==
    \A a \in BuildArgs({ForeignAddr}) :
        LET r == Build(a)
            n == Len(r.ins)
        IN r.err = "none" =>
            /\ n <= Len(Eligible(a))
            /\ r.ins = [k \in 1..n |-> Eligible(a)[k].id]
            /\ SumAmounts(Eligible(a), n) >= a.amount + Config.TxFee
            /\ n >= 1
            /\ SumAmounts(Eligible(a), n - 1) < a.amount + Config.TxFee

\* C20: a successful createTx has one output of amount to destAddr; it has a
\* second output if and only if amountSpent > amount + fee, which pays
\* amountSpent - amount - fee to changeAddr; no output has amount 0.
C20_PaymentAndChange ==
    \A a \in BuildArgs(Addrs) :
        LET r == Build(a)
            payment == [asset |-> a.assetID, out |-> TransferOutput(a.amount, 0, a.destAddr)]
            change == [asset |-> a.assetID,
                       out |-> TransferOutput(r.amountSpent - a.amount - Config.TxFee, 0, "k1")]
        IN r.err = "none" =>
            /\ \A k \in 1..Len(r.outs) : r.outs[k].out.amt > 0
            /\ IF r.amountSpent > a.amount + Config.TxFee
               THEN r.outs \in {<<payment, change>>, <<change, payment>>}
               ELSE r.outs = <<payment>>


---------------------------------------------------------------------------
(* C14 .. C16: what createTx, addUTXO and getAddress change *)

\* C14: a call of createTx, whether it returns a transaction or an error,
\* leaves the UTXO set, the balance table and the pending transactions as they
\* were.
C14_CreateTxChangesNothing ==
    [][last'.op = "createTx" => UNCHANGED <<utxoSet, balance, txs, keychain>>]_vars

\* createTx has returned a transaction built from a wallet with a balance
C14_Witness ==
    /\ last.op = "createTx"
    /\ last.case = "none"
    /\ BalanceOf(balance, AvaxAssetID) > 0
    /\ Len(utxoSet.UTXOs) >= 2

\* C15: addUTXO of a UTXO whose output is no transferable output or that the
\* keychain cannot spend changes neither the UTXO set nor the balance table;
\* addUTXO of a spendable UTXO whose id is not in the set appends it and raises
\* the balance of its asset, a uint64, by its amount, and no other balance.
C15_AddUTXOAdmitsSpendable ==
    [][last'.op = "addUTXO" =>
         /\ last'.case = "refused" => UNCHANGED <<utxoSet, balance>>
         /\ last'.case = "new" =>
              /\ Len(utxoSet'.UTXOs) = Len(utxoSet.UTXOs) + 1
              /\ SubSeq(utxoSet'.UTXOs, 1, Len(utxoSet.UTXOs)) = utxoSet.UTXOs
              /\ LET u == utxoSet'.UTXOs[Len(utxoSet'.UTXOs)] IN
                   /\ u.id \notin DOMAIN utxoSet.utxoMap
                   /\ Get(utxoSet', u.id) = u
                   /\ Spend(keychain, u.out, MaxUint64)
                   /\ \A asset \in Assets :
                        BalanceOf(balance', asset) =
                          IF asset = u.asset
                          THEN Wrap(BalanceOf(balance, asset) + u.out.amt)
                          ELSE BalanceOf(balance, asset)]_vars

\* addUTXO has refused a UTXO while the wallet holds a key and a UTXO
C15_Witness ==
    /\ last.op = "addUTXO"
    /\ last.case = "refused"
    /\ Len(keychain) = 1
    /\ Len(utxoSet.UTXOs) = 1

\* C16: getAddress on an empty keychain creates one key and returns its
\* address; on a keychain with keys it creates none and returns an address of
\* the keychain; called twice in a row it returns the same address; called after
\* a key was imported into an empty keychain it returns that key's address.
C16_GetAddressStable ==
    [][last'.op = "getAddress" =>
         /\ Len(keychain) = 0 => (Len(keychain') = 1 /\ last'.case = keychain'[1])
         /\ Len(keychain) > 0 => (keychain' = keychain /\ last'.case \in Range(keychain))
         /\ last.op = "getAddress" => last'.case = last.case
         /\ (last.op = "importKey" /\ keychain = <<last.case>>) => last'.case = last.case]_vars

\* getAddress has returned the first address of a keychain that holds the key
\* it created and two more
C16_Witness ==
    /\ last.op = "getAddress"
    /\ Len(keychain) = MaxKeys
    /\ keychain[1] \in NewKeys
    /\ last.case = keychain[1]

---------------------------------------------------------------------------
(* C21: what decides the outcome of a build *)

\* the calls of createTx with amount 0
ZeroArgs == [assetID : Assets, amount : {0}, destAddr : Addrs, time : {Now, MaxUint64}]

\* the sum of the amounts of all the UTXOs createTx may take
TotalSpendable(a) == SumAmounts(Eligible(a), Len(Eligible(a)))

\* C21: createTx with amount 0 fails with the zero-amount error whatever the
\* ledger holds; with amount > 0, unless the accumulation overflows, it fails
\* for lack of funds exactly when the spendable UTXOs of the asset sum to less
\* than amount + fee, and succeeds otherwise; it never succeeds on an empty
\* ledger.
C21_OutcomeDecidedByFunds ==
    /\ \A a \in ZeroArgs : Build(a).err = "zero"
    /\ \A a \in BuildArgs({ForeignAddr}) :
         LET r == Build(a) IN
           /\ r.err \in {"none", "insufficient", "overflow"}
           /\ r.err # "overflow" =>
                (r.err = "insufficient" <=> TotalSpendable(a) < a.amount + Config.TxFee)
           /\ Len(utxoSet.UTXOs) = 0 => r.err # "none"

---------------------------------------------------------------------------
(* C22, C23: the errors that end Run *)

\* C22: when ParseTx or Engine.Issue fails for a batch, Run returns an error
\* with the lock released and without the batch counted as handed over; once Run
\* has returned, no batch is handed to the engine any more, so no later batch
\* follows and the failed one is not submitted again.
C22_EngineFailureIsFatal ==
    [][/\ (last'.op = "Run" /\ last'.case \in {"parse", "issue"})
          => (pc' = "done" /\ result' = "error" /\ lock' = "free" /\ handed' = handed)
       /\ pc = "done"
          => (pc' = "done" /\ result' = result /\ handed' = handed /\ txs' = txs)]_vars

\* Engine.Issue has failed after a batch was handed over, with transactions
\* still waiting in the sequence
C22_Witness ==
    /\ last.op = "Run"
    /\ last.case = "issue"
    /\ pc = "done"
    /\ result = "error"
    /\ Len(handed) >= 1
    /\ Len(txs) >= 1

\* generateTxs has just returned an error: a build failed, or there is no key
GenerationFailed ==
    /\ last.op = "generateTxs"
    /\ last.case \in {"zero", "insufficient", "overflow", "nokeys"}

---------------------------------------------------------------------------
(* C24: the calls of Put and Remove that change nothing *)

\* C24: Put of a UTXO whose id is in the set leaves the set as it was: the
\* stored value, the order and the length of the list, whether the UTXO put is
\* the stored one or another with the same id, so Put twice is Put once.  Remove
\* of an id that is not in the set returns nil and leaves the set as it was,
\* also on the set that was never used.
C24_NoOpCases ==
    [][/\ (last'.op = "Put" /\ last'.case = "present") => utxoSet' = utxoSet
       /\ (last'.op = "Remove" /\ last'.case = "absent") => utxoSet' = utxoSet
       /\ \A u \in SetUTXOs :
            /\ InputID(u) \in ListIDs(utxoSet) => Put(utxoSet, u) = utxoSet
            /\ \A v \in SetUTXOs :
                 InputID(v) = InputID(u) => Put(Put(utxoSet, u), v) = Put(utxoSet, u)
       /\ \A id \in SetIDs \ ListIDs(utxoSet) :
            /\ Remove(utxoSet, id) = utxoSet
            /\ RemoveReturn(utxoSet, id) = NilUTXO
       /\ \A id \in SetIDs :
            /\ Remove(NewUTXOSet, id) = NewUTXOSet
            /\ RemoveReturn(NewUTXOSet, id) = NilUTXO]_vars

\* a UTXO was put whose id the full set held already, stored with no
\* transferable output
C24_Witness ==
    /\ last.op = "Put"
    /\ last.case = "present"
    /\ Len(utxoSet.UTXOs) = NumIDs
    /\ Get(utxoSet, last.id).out = NoOut
    /\ shadow[last.id].out = NoOut

====
